---- MODULE Spec2Model ----
(***************************************************************************)
(* Model of the lyric snippet generator's page component (Home).  Two      *)
(* builds of the component are in the repository: src/src/app/page.tsx     *)
(* ("page") and src/unnamed/part_000 ("part").  They share the handlers    *)
(* and differ in a few render conditions; `variant` fixes which one runs.  *)
(*                                                                         *)
(* A state is the component's React state plus what is outside it: the     *)
(* requests in flight, the cover image of the mounted modal, the captures  *)
(* (toPng promises) not yet settled, the last alert() raised.  Every       *)
(* action is one event handler or one promise continuation; the render     *)
(* conditions of the JSX are the guards of the user's actions.             *)
(*                                                                         *)
(* The backend route src/src/app/api/lyrics/route.ts is modelled next to   *)
(* it: the token held by spotifyApi, the renewal timeouts, the             *)
(* getSpotifyToken calls and the GET handlers in flight.  Every action of  *)
(* the backend is the code between two awaits.  The specifications of the  *)
(* page leave the backend's state alone and the specifications of the      *)
(* backend leave the page's: the page sees the backend through the         *)
(* outcomes of its requests only.                                          *)
(***************************************************************************)
EXTENDS Integers, Sequences, FiniteSets, Bags, TLC

(***************************************************************************)
(* Bounds of the model (not program constants).                            *)
(***************************************************************************)
\* Number of lines of the lyrics of track s1.
SongLines == 4
\* Number of lines of the lyrics of track s3, the document the line clicks
\* are tried on by themselves: one more, so that a full selection leaves a
\* line that is not next to it.
NumLines == 6
\* Captures (toPng promises) pending at once.
MaxCaptures == 1

(***************************************************************************)
(* Program constants.                                                      *)
(***************************************************************************)
MAX_SELECTED_LINES == 4
\* fontOptions[1] and gradientPresets[0], by position in the array.
DefaultFont == 1
DefaultGradient == 0

\* The entries of fontOptions and gradientPresets the user picks among.
FontChoices == {DefaultFont, 2}
GradientChoices == {DefaultGradient, 1}

Null == "null"
Token == "token"
NL == "\n"

Variants == {"page", "part"}

(***************************************************************************)
(* The data the backend can answer with.  The catalog search lists two     *)
(* tracks: s1 has a thumbnail and SongLines lines of lyrics (line 1 is     *)
(* empty), s2 has no thumbnail and two lines.  A third track, s3, is not   *)
(* listed: it has NumLines lines and no thumbnail.                         *)
(***************************************************************************)
Songs == {"s1", "s2"}

ThumbnailUrl(song) == IF song = "s1" THEN "thumb1" ELSE Null

HasThumbnail(song) == song # Null /\ ThumbnailUrl(song) # Null

\* The title of a track, a sequence of characters.
Title(song) ==
  IF song = "s1" THEN <<"A", "b", " ", "1">>
  ELSE IF song = "s2" THEN <<"!", "Z">>
  ELSE <<"z", "0">>

Letters == <<"a", "b", "c", "d", "e", "f", "g", "h", "i", "j">>

\* Text of line i (0-based) of the lyrics of s1 and s3: one letter, except
\* line 1, empty.
LineText(i) == IF i = 1 THEN <<>> ELSE <<Letters[i + 1]>>

RECURSIVE JoinLines(_)
JoinLines(ls) ==
  IF Len(ls) = 0 THEN <<>>
  ELSE IF Len(ls) = 1 THEN ls[1]
  ELSE ls[1] \o <<NL>> \o JoinLines(Tail(ls))

\* The plainLyrics text of a track, a sequence of characters.
PlainLyrics(song) ==
  IF song = "s1" THEN JoinLines([i \in 1..SongLines |-> LineText(i - 1)])
  ELSE IF song = "s3" THEN JoinLines([i \in 1..NumLines |-> LineText(i - 1)])
  ELSE <<"x", NL, "y">>

\* What the user types into the search box; the box starts empty.
Queries == {"a"}

\* query.trim() is non-empty
TrimNonEmpty(q) == q \notin {"", " "}

\* The tracks the catalog search returns for a query.
Catalog(q) == IF q = "a" THEN <<"s1", "s2">> ELSE <<>>

\* data.results of a 200 response.
Found(q, outcome) == IF outcome = "ok" THEN Catalog(q) ELSE <<>>

(***************************************************************************)
(* Pure helpers of the component.                                          *)
(***************************************************************************)
Range(s) == {s[i] : i \in 1..Len(s)}

\* lyrics.split("\n"): the lines of a text; the empty text has one empty line.
RECURSIVE SplitLines(_)
SplitLines(text) ==
  IF \A k \in 1..Len(text) : text[k] # NL THEN <<text>>
  ELSE LET k == CHOOSE j \in 1..Len(text) :
                  text[j] = NL /\ \A m \in 1..(j - 1) : text[m] # NL
       IN <<SubSeq(text, 1, k - 1)>> \o SplitLines(SubSeq(text, k + 1, Len(text)))

RECURSIVE InsertSorted(_, _)
InsertSorted(x, s) ==
  IF s = <<>> THEN <<x>>
  ELSE IF x <= Head(s) THEN <<x>> \o s
  ELSE <<Head(s)>> \o InsertSorted(x, Tail(s))

\* Variant: the array is taken in insertion order.
SortAscSkipped(s) == s

\* [...arr].sort((a, b) => a - b)
RECURSIVE SortAsc(_)
SortAsc(s) == IF s = <<>> THEN <<>> ELSE InsertSorted(Head(s), SortAsc(Tail(s)))

\* arr.includes(x)
Includes(s, x) == \E i \in 1..Len(s) : s[i] = x

\* The branches of handleLineSelect's updater: the next selection and the
\* alert raised.
\* Variant: a per-line toggle, the clicked line alone is removed.
MemberClickToggles(prev, index) ==
  [sel |-> SelectSeq(prev, LAMBDA x : x # index), alert |-> ""]

\* if (prev.includes(index)) return [];
MemberClick(prev, index) == [sel |-> <<>>, alert |-> ""]

\* Variant: the line two past the end counts as adjacent.
IsAdjacentOrNear(index, min, max) == index >= min - 1 /\ index <= max + 2

\* index === min - 1 || index === max + 1
IsAdjacent(index, min, max) == index = min - 1 \/ index = max + 1

\* Variant: the oldest line is dropped when one is added.
ExtendDropsOldest(prev, index) == [sel |-> Append(Tail(prev), index), alert |-> ""]

\* return [...prev, index];
Extend(prev, index) == [sel |-> Append(prev, index), alert |-> ""]

\* Variant: the alert is raised and the selection restarts at the clicked line.
RejectRestarts(prev, index) == [sel |-> <<index>>, alert |-> "Only 4 lines allowed."]

\* alert(`Only ${MAX_SELECTED_LINES} lines allowed.`); return prev;
Reject(prev, index) == [sel |-> prev, alert |-> "Only 4 lines allowed."]

\* Variant: a click away from the run is ignored.
RestartKeeps(prev, index) == [sel |-> prev, alert |-> ""]

\* return [index];
Restart(prev, index) == [sel |-> <<index>>, alert |-> ""]

\* The updater of handleLineSelect.
LineSelectUpdate(prev, index) ==
  IF Len(prev) = 0 THEN [sel |-> <<index>>, alert |-> ""]
  ELSE IF Includes(prev, index) THEN MemberClick(prev, index)
  ELSE LET sorted == SortAsc(prev)
           min == sorted[1]
           max == sorted[Len(sorted)]
       IN IF IsAdjacent(index, min, max) /\ Len(prev) < MAX_SELECTED_LINES
            THEN Extend(prev, index)
          ELSE IF Len(prev) >= MAX_SELECTED_LINES
            THEN Reject(prev, index)
          ELSE Restart(prev, index)

\* sorted.every((v, i) => i === 0 || v === sorted[i - 1] + 1)
EveryConsecutive(sorted) == \A i \in 2..Len(sorted) : sorted[i] = sorted[i - 1] + 1

\* Variant: only the empty selection is refused.
OpenValidationEmptyOnly(sel) ==
  IF Len(sel) = 0 THEN "Please select some lyrics lines first." ELSE ""

\* The validation of openPreviewModal: the alert it raises, "" when it passes.
OpenValidation(sel) ==
  IF Len(sel) = 0 THEN "Please select some lyrics lines first."
  ELSE IF Len(SortAsc(sel)) > 1 /\ ~EveryConsecutive(SortAsc(sel))
    THEN "Please select consecutive lines."
  ELSE ""

\* The characters titles are written in, by class.
LowerChars == {"a", "b", "z"}
UpperChars == {"A", "B", "Z"}
DigitChars == {"0", "1"}
OtherChars == {" ", "!", "_"}

\* /[a-z0-9]/i
IsAlnum(ch) == ch \in LowerChars \cup UpperChars \cup DigitChars

\* ch.toLowerCase()
ToLowerCase(ch) ==
  IF ch = "A" THEN "a" ELSE IF ch = "B" THEN "b" ELSE IF ch = "Z" THEN "z" ELSE ch

\* Variant: the characters outside [a-z0-9] are removed.
SanitizeStrips(title) == SelectSeq(title, IsAlnum)

\* title.replace(/[^a-z0-9]/gi, "_")
Sanitize(title) == [k \in 1..Len(title) |-> IF IsAlnum(title[k]) THEN title[k] ELSE "_"]

\* No file name: what `download` holds when no link was clicked.
NoFile == <<>>

\* The suffix of the template literal, in two pieces.
Suffix == <<"_selection", ".png">>

\* `${title.replace(/[^a-z0-9]/gi, "_").toLowerCase()}_selection.png`
FileName(title) ==
  LET replaced == Sanitize(title)
  IN [k \in 1..Len(replaced) |-> ToLowerCase(replaced[k])] \o Suffix

(***************************************************************************)
(* State.                                                                  *)
(***************************************************************************)
VARIABLES
  variant,              \* which build of the component runs
  accessToken,          \* useState<string | null>(null)
  searchQuery,
  searchResults,        \* sequence of tracks
  selectedSong,         \* a track or Null
  lyrics,               \* the lyrics text, a sequence of characters
  lyricsSource,
  isSynced,
  selectedLineIndices,  \* array of line indices (0-based), in insertion order
  isLoading,
  isFetchingLyrics,
  error,
  isModalOpen,
  selectedFont,         \* position in fontOptions
  selectedGradient,     \* position in gradientPresets
  coverKey,
  coverLoaded,
  searchReqs,           \* search requests in flight: the query of each
  lyricsReqs,           \* lyrics requests in flight: the track of each
  imgPending,           \* the modal's cover image is mounted and not yet loaded
  captures,             \* the toPng promises not yet settled, each by the
                        \* title of the track its callbacks close over
  alertMsg,             \* the alert() raised by the last step, "" when none,
                        \* each alert named by the text page.tsx gives it
  download,             \* link.download of the link clicked by the last step,
                        \* NoFile when the step clicked none
  last,                 \* the inputs of the last line click, where a specification logs them
  spotifyToken,         \* route.ts: the access token spotifyApi holds, Null when none
  timeouts,             \* route.ts: the bag of pending setTimeout(getSpotifyToken, delay), by delay
  grantCalls,           \* route.ts: getSpotifyToken calls nobody awaits, waiting for their grant
  gets,                 \* route.ts: the GET handlers in flight, each at its await
  response              \* route.ts: the response the last step returned, NoResponse when none

clientVars == <<variant, accessToken, searchQuery, searchResults, selectedSong, lyrics,
          lyricsSource, isSynced, selectedLineIndices, isLoading, isFetchingLyrics,
          error, isModalOpen, selectedFont, selectedGradient, coverKey, coverLoaded,
          searchReqs, lyricsReqs, imgPending, captures, alertMsg, download, last>>

serverVars == <<spotifyToken, timeouts, grantCalls, gets, response>>

vars == <<clientVars, serverVars>>

\* The state the handlers of the preview modal write.
snippetConfig == <<isModalOpen, selectedFont, selectedGradient, coverKey, coverLoaded>>

\* The value of `last` after a step that logs nothing.
NoClick == [clicked |-> FALSE, index |-> -1, prev |-> <<>>]

lyricsLines == SplitLines(lyrics)

\* lines[i] || "": the text of line i, "" (no characters) when there is none.
LineOrEmpty(lines, i) == IF i + 1 \in 1..Len(lines) THEN lines[i + 1] ELSE <<>>

\* Variant: the lines are taken in the order the indices were clicked.
SelectedLineContentUnsorted(text, sel) ==
  IF text = <<>> \/ Len(sel) = 0 THEN <<>>
  ELSE [k \in 1..Len(sel) |-> LineOrEmpty(SplitLines(text), sel[k])]

\* The body of getSelectedLineContent, for a lyrics text and a selection.
SelectedLineContent(text, sel) ==
  IF text = <<>> \/ Len(sel) = 0 THEN <<>>
  ELSE [k \in 1..Len(sel) |-> LineOrEmpty(SplitLines(text), SortAsc(sel)[k])]

getSelectedLineContent == SelectedLineContent(lyrics, selectedLineIndices)

\* The character U+00A0.
Nbsp == "nbsp"

\* What the modal's <p> of a snippet line holds: {line || "\u00A0"} in
\* page.tsx, {line} in part_000.
RenderedLine(v, line) ==
  IF v = "page" THEN (IF line = <<>> THEN <<Nbsp>> ELSE line) ELSE line

\* The <p> elements of the modal's snippet, in order.
SnippetLines ==
  [k \in 1..Len(getSelectedLineContent) |->
     RenderedLine(variant, getSelectedLineContent[k])]

(***************************************************************************)
(* Render conditions of the JSX.                                           *)
(***************************************************************************)
LoggedIn == accessToken # Null

\* {isModalOpen && selectedSong && (...)} inside the logged-in branch
ModalShown == LoggedIn /\ isModalOpen /\ selectedSong # Null

\* The modal's backdrop (fixed inset-0) covers the page: what is under it
\* takes no pointer events.  The lyric lines (<p>) and the result rows
\* (<li>) are operable by pointer only.
PointerBlocked == ModalShown

SearchInputEnabled == LoggedIn /\ ~(isLoading \/ isFetchingLyrics)

\* Variant: the button is not disabled while a search is pending.
SubmitEnabledWhileLoading == LoggedIn /\ ~(~TrimNonEmpty(searchQuery) \/ isFetchingLyrics)

\* disabled={!searchQuery.trim() || isLoading || isFetchingLyrics}
SubmitEnabled == LoggedIn /\ ~(~TrimNonEmpty(searchQuery) \/ isLoading \/ isFetchingLyrics)

\* {(isLoading || isFetchingLyrics) && <p className="text-blue-500 ...">}
LoaderShown == LoggedIn /\ (isLoading \/ isFetchingLyrics)

\* The texts the page shows as information, that is outside the red
\* {error && <p className="text-red-500 ...">} paragraph, besides the result
\* rows and the lyrics: the loader line is the only one.
InfoTexts ==
  IF LoaderShown THEN {IF isLoading THEN "Searching" ELSE "Loading lyrics"} ELSE {}

\* The text of the red error paragraph, shown on both views.
ErrorText == error

ResultsShown ==
  /\ LoggedIn
  /\ variant = "page" => selectedSong = Null
  /\ ~isFetchingLyrics
  /\ Len(searchResults) > 0

LyricsShown ==
  /\ LoggedIn
  /\ selectedSong # Null
  /\ lyrics # <<>>
  /\ variant = "part" => ~isFetchingLyrics

CreateButtonShown == LoggedIn /\ Len(selectedLineIndices) > 0

\* Variant: the button waits for the cover whether or not there is one.
ExportDisabledUntilLoaded == ~coverLoaded

\* disabled={!coverLoaded && !!selectedSong.thumbnailUrl}
ExportDisabled == ~coverLoaded /\ HasThumbnail(selectedSong)

ExportEnabled == ModalShown /\ ~ExportDisabled

\* The cover <Image> of the modal is in the document.
CoverMounted(token, open, song) == token # Null /\ open /\ HasThumbnail(song)

\* The cover image after a step: a newly mounted image, or one whose src
\* changed, loads again; an unmounted one never reports.
ImgPendingNext ==
  IF CoverMounted(accessToken', isModalOpen', selectedSong')
    THEN \/ ~CoverMounted(accessToken, isModalOpen, selectedSong)
         \/ selectedSong' # selectedSong
         \/ coverKey' # coverKey
         \/ imgPending
    ELSE FALSE

(***************************************************************************)
(* The backend route: its requests, its responses and the state it starts  *)
(* in.                                                                     *)
(***************************************************************************)
\* The access token a client-credentials grant gives.
ServerToken == "srv"

\* The lyrics parameters of a request that are present and not empty.
ParamNames == {"trackName", "artistName", "albumName", "duration"}

\* A GET handler in flight: `query` is the query parameter ("" when absent
\* or empty), `params` the lyrics parameters present and not empty, `pc` the
\* await it stands at; the counts are the calls it has made so far to the
\* catalog search, to the lyrics provider and to getSpotifyToken.
NewRequest(q, ps) ==
  [query |-> q, params |-> ps, pc |-> "start", searches |-> 0, fetches |-> 0, grants |-> 0]

\* NextResponse.json(body, { status }): `kind` names the shape of the body
\* ("results", "lyrics", "null" for { lyrics: null, source, message },
\* "error" for { error }) and `message` its message or error text.
Reply(status, kind, message) == [status |-> status, kind |-> kind, message |-> message]

\* What `response` holds: the reply, the status of the provider's last
\* answer to the handler (0 when it gave none) and the handler it ends.
Response(reply, provider, req) ==
  [status |-> reply.status, kind |-> reply.kind, message |-> reply.message,
   provider |-> provider, request |-> req]

NoResponse == Response(Reply(0, "none", ""), 0, NewRequest("", {}))

\* The module has been loaded: line 29 has called getSpotifyToken, whose
\* grant is pending.
ServerStarted ==
  /\ spotifyToken = Null
  /\ timeouts = EmptyBag
  /\ grantCalls = 1
  /\ gets = <<>>
  /\ response = NoResponse

(***************************************************************************)
(* The state after the component mounts; `hash` is the URL fragment the    *)
(* page was loaded with.                                                   *)
(***************************************************************************)
Hashes == {"none", "token", "error"}

Mounted(v, hash) ==
  /\ variant = v
  /\ accessToken = IF hash = "token" THEN Token ELSE Null
  /\ searchQuery = ""
  /\ searchResults = <<>>
  /\ selectedSong = Null
  /\ lyrics = <<>>
  /\ lyricsSource = Null
  /\ isSynced = FALSE
  /\ selectedLineIndices = <<>>
  /\ isLoading = FALSE
  /\ isFetchingLyrics = FALSE
  /\ error = IF hash = "error" /\ v = "part" THEN "Spotify login failed" ELSE ""
  /\ isModalOpen = FALSE
  /\ selectedFont = DefaultFont
  /\ selectedGradient = DefaultGradient
  /\ coverKey = 0
  /\ coverLoaded = FALSE
  /\ searchReqs = <<>>
  /\ lyricsReqs = <<>>
  /\ imgPending = FALSE
  /\ captures = <<>>
  /\ alertMsg = ""
  /\ download = NoFile
  /\ last = NoClick
  /\ ServerStarted

Init == \E v \in Variants, hash \in Hashes : Mounted(v, hash)

(***************************************************************************)
(* Line selection.                                                         *)
(***************************************************************************)
\* A click on line `index` of the lyrics panel.
LineSelect(index) ==
  /\ LyricsShown /\ ~PointerBlocked
  /\ index \in 0..(Len(lyricsLines) - 1)
  /\ selectedLineIndices' = LineSelectUpdate(selectedLineIndices, index).sel
  /\ alertMsg' = LineSelectUpdate(selectedLineIndices, index).alert
  /\ download' = NoFile
  /\ UNCHANGED serverVars
  /\ UNCHANGED <<variant, accessToken, searchQuery, searchResults, selectedSong, lyrics,
                 lyricsSource, isSynced, isLoading, isFetchingLyrics, error,
                 snippetConfig, searchReqs, lyricsReqs, imgPending, captures>>

HandleLineSelect(index) == LineSelect(index) /\ last' = NoClick

\* The same click, with its inputs kept in `last`.
LoggedLineSelect(index) ==
  /\ LineSelect(index)
  /\ last' = [clicked |-> TRUE, index |-> index, prev |-> selectedLineIndices]

(***************************************************************************)
(* Search.                                                                 *)
(***************************************************************************)
SetSearchQuery(q) ==
  /\ SearchInputEnabled
  /\ searchQuery' = q
  /\ alertMsg' = ""
  /\ last' = NoClick
  /\ download' = NoFile
  /\ UNCHANGED serverVars
  /\ UNCHANGED <<variant, accessToken, searchResults, selectedSong, lyrics, lyricsSource,
                 isSynced, selectedLineIndices, isLoading, isFetchingLyrics, error,
                 snippetConfig, searchReqs, lyricsReqs, imgPending, captures>>

\* handleSearch up to its await: the request leaves.
HandleSearchBody ==
  /\ SubmitEnabled
  /\ TrimNonEmpty(searchQuery)
  /\ isLoading' = TRUE
  /\ error' = ""
  /\ searchReqs' = Append(searchReqs, searchQuery)
  /\ alertMsg' = ""
  /\ last' = NoClick
  /\ download' = NoFile
  /\ UNCHANGED <<variant, accessToken, searchQuery, searchResults, selectedSong, lyrics,
                 lyricsSource, isSynced, selectedLineIndices, isFetchingLyrics,
                 snippetConfig, lyricsReqs, imgPending, captures>>

\* The same with the backend left alone.
HandleSearch == HandleSearchBody /\ UNCHANGED serverVars

RemoveAt(s, i) == SubSeq(s, 1, i - 1) \o SubSeq(s, i + 1, Len(s))

\* "empty": the catalog has no match; "failed": a non-OK status other than 401,
\* or a transport exception: both end in setError(message).
SearchOutcomes == {"ok", "empty", "401", "failed"}

\* Variant: a failure other than 401 carries an empty message.
FailureMessageBlank(outcome) ==
  IF outcome = "401" THEN "Spotify session expired." ELSE ""

\* The message fetchApi throws with, by outcome.
FailureMessage(outcome) ==
  IF outcome = "401" THEN "Spotify session expired." ELSE "Request failed"

\* Variant: a 401 leaves the token in place.
TokenKept(outcome) == accessToken

\* fetchApi's 401 branch: setAccessToken(null)
TokenAfter(outcome) == IF outcome = "401" THEN Null ELSE accessToken

\* Variant: the busy flag is lowered on the success path only.
FlagAfterSuccessOnly(outcome) == outcome \in {"401", "failed"}

\* finally { setIsLoading(false) } / finally { setIsFetchingLyrics(false) }
FlagAfter(outcome) == FALSE

\* handleSearch after its await: the response of request i arrives.
SearchResponseBody(i, outcome) ==
  /\ i \in 1..Len(searchReqs)
  /\ searchReqs' = RemoveAt(searchReqs, i)
  /\ accessToken' = TokenAfter(outcome)
  /\ IF outcome \in {"ok", "empty"}
       THEN /\ searchResults' = Found(searchReqs[i], outcome)
            /\ error' = IF Len(Found(searchReqs[i], outcome)) = 0
                           THEN "No songs found." ELSE error
       ELSE /\ error' = FailureMessage(outcome)
            /\ UNCHANGED searchResults
  /\ isLoading' = FlagAfter(outcome)
  /\ alertMsg' = ""
  /\ last' = NoClick
  /\ download' = NoFile
  /\ UNCHANGED <<variant, searchQuery, selectedSong, lyrics, lyricsSource, isSynced,
                 selectedLineIndices, isFetchingLyrics, snippetConfig, lyricsReqs,
                 captures>>
  /\ imgPending' = ImgPendingNext

\* The same with the backend left alone.
SearchResponse(i, outcome) == SearchResponseBody(i, outcome) /\ UNCHANGED serverVars

(***************************************************************************)
(* Song selection and lyrics fetch.                                        *)
(***************************************************************************)
\* handleSelectSong up to its await.
HandleSelectSong(song) ==
  /\ ResultsShown /\ ~PointerBlocked
  /\ Includes(searchResults, song)
  /\ selectedSong' = song
  /\ isFetchingLyrics' = TRUE
  /\ error' = ""
  /\ lyricsReqs' = Append(lyricsReqs, song)
  /\ alertMsg' = ""
  /\ last' = NoClick
  /\ download' = NoFile
  /\ UNCHANGED serverVars
  /\ UNCHANGED <<variant, accessToken, searchQuery, searchResults, lyrics, lyricsSource,
                 isSynced, selectedLineIndices, isLoading, snippetConfig, searchReqs,
                 captures>>
  /\ imgPending' = ImgPendingNext

LyricsOutcomes == {"ok", "notfound", "401", "failed"}

\* handleSelectSong after its await: the response of request i arrives.
LyricsResponse(i, outcome) ==
  /\ i \in 1..Len(lyricsReqs)
  /\ lyricsReqs' = RemoveAt(lyricsReqs, i)
  /\ accessToken' = TokenAfter(outcome)
  /\ IF outcome \in {"ok", "notfound"}
       THEN /\ lyrics' = IF outcome = "ok" THEN PlainLyrics(lyricsReqs[i]) ELSE <<>>
            /\ lyricsSource' = "lrclib"
            /\ isSynced' = FALSE
            /\ UNCHANGED error
       ELSE /\ error' = FailureMessage(outcome)
            /\ UNCHANGED <<lyrics, lyricsSource, isSynced>>
  /\ isFetchingLyrics' = FlagAfter(outcome)
  /\ alertMsg' = ""
  /\ last' = NoClick
  /\ download' = NoFile
  /\ UNCHANGED serverVars
  /\ UNCHANGED <<variant, searchQuery, searchResults, selectedSong, selectedLineIndices,
                 isLoading, snippetConfig, searchReqs, captures>>
  /\ imgPending' = ImgPendingNext

(***************************************************************************)
(* Preview modal and export.                                               *)
(***************************************************************************)
\* Variant: the cover-loaded flag of the session before is kept.
ResetSnippetKeepsLoaded ==
  /\ coverKey' = 1 - coverKey
  /\ UNCHANGED coverLoaded
  /\ selectedFont' = DefaultFont
  /\ selectedGradient' = DefaultGradient
  /\ isModalOpen' = TRUE

\* Variant: the font and the gradient of the session before are kept.
ResetSnippetKeepsStyle ==
  /\ coverKey' = 1 - coverKey
  /\ coverLoaded' = FALSE
  /\ UNCHANGED <<selectedFont, selectedGradient>>
  /\ isModalOpen' = TRUE

\* The five setters openPreviewModal ends with.  coverKey is Date.now(), read
\* only to make the cover's src differ from the one of the session before:
\* the model keeps two key values and alternates between them.
ResetSnippet ==
  /\ coverKey' = 1 - coverKey
  /\ coverLoaded' = FALSE
  /\ selectedFont' = DefaultFont
  /\ selectedGradient' = DefaultGradient
  /\ isModalOpen' = TRUE

\* The body of openPreviewModal.
OpenPreviewModalBody ==
  /\ alertMsg' = OpenValidation(selectedLineIndices)
  /\ IF OpenValidation(selectedLineIndices) # ""
       THEN UNCHANGED snippetConfig
       ELSE ResetSnippet
  /\ last' = NoClick
  /\ download' = NoFile
  /\ UNCHANGED serverVars
  /\ UNCHANGED <<variant, accessToken, searchQuery, searchResults, selectedSong, lyrics,
                 lyricsSource, isSynced, selectedLineIndices, isLoading, isFetchingLyrics,
                 error, searchReqs, lyricsReqs, captures>>
  /\ imgPending' = ImgPendingNext

\* The "Create Share Image" button.
OpenPreviewModal == CreateButtonShown /\ OpenPreviewModalBody

\* The modal's close and Cancel buttons.
ClosePreviewModal ==
  /\ ModalShown
  /\ isModalOpen' = FALSE
  /\ alertMsg' = ""
  /\ last' = NoClick
  /\ download' = NoFile
  /\ UNCHANGED serverVars
  /\ UNCHANGED <<variant, accessToken, searchQuery, searchResults, selectedSong, lyrics,
                 lyricsSource, isSynced, selectedLineIndices, isLoading, isFetchingLyrics,
                 error, selectedFont, selectedGradient, coverKey, coverLoaded, searchReqs,
                 lyricsReqs, captures>>
  /\ imgPending' = ImgPendingNext

SetSelectedFont(f) ==
  /\ ModalShown
  /\ selectedFont' = f
  /\ alertMsg' = ""
  /\ last' = NoClick
  /\ download' = NoFile
  /\ UNCHANGED serverVars
  /\ UNCHANGED <<variant, accessToken, searchQuery, searchResults, selectedSong, lyrics,
                 lyricsSource, isSynced, selectedLineIndices, isLoading, isFetchingLyrics,
                 error, isModalOpen, selectedGradient, coverKey, coverLoaded, searchReqs,
                 lyricsReqs, imgPending, captures>>

SetSelectedGradient(g) ==
  /\ ModalShown
  /\ selectedGradient' = g
  /\ alertMsg' = ""
  /\ last' = NoClick
  /\ download' = NoFile
  /\ UNCHANGED serverVars
  /\ UNCHANGED <<variant, accessToken, searchQuery, searchResults, selectedSong, lyrics,
                 lyricsSource, isSynced, selectedLineIndices, isLoading, isFetchingLyrics,
                 error, isModalOpen, selectedFont, coverKey, coverLoaded, searchReqs,
                 lyricsReqs, imgPending, captures>>

\* onLoadingComplete of the modal's cover image.
CoverLoadingComplete ==
  /\ CoverMounted(accessToken, isModalOpen, selectedSong)
  /\ imgPending
  /\ coverLoaded' = TRUE
  /\ imgPending' = FALSE
  /\ alertMsg' = ""
  /\ last' = NoClick
  /\ download' = NoFile
  /\ UNCHANGED serverVars
  /\ UNCHANGED <<variant, accessToken, searchQuery, searchResults, selectedSong, lyrics,
                 lyricsSource, isSynced, selectedLineIndices, isLoading, isFetchingLyrics,
                 error, isModalOpen, selectedFont, selectedGradient, coverKey, searchReqs,
                 lyricsReqs, captures>>

\* exportPngFromModal up to the toPng call.  previewRef.current is the
\* modal's preview node, null when no modal is rendered.  The promise's
\* callbacks close over the selectedSong of the render the click came from
\* and read its title.
ExportPngFromModalBody ==
  /\ Len(captures) < MaxCaptures
  /\ IF ~ModalShown
       THEN /\ alertMsg' = "Error preparing image."
            /\ UNCHANGED captures
       ELSE /\ alertMsg' = ""
            /\ captures' = Append(captures, Title(selectedSong))
  /\ last' = NoClick
  /\ download' = NoFile
  /\ UNCHANGED serverVars
  /\ UNCHANGED <<variant, accessToken, searchQuery, searchResults, selectedSong, lyrics,
                 lyricsSource, isSynced, selectedLineIndices, isLoading, isFetchingLyrics,
                 error, snippetConfig, searchReqs, lyricsReqs, imgPending>>

\* The modal's Export button.
ExportPngFromModal == ExportEnabled /\ ExportPngFromModalBody

\* Variant: the link is made and clicked, the modal is left open.
ResolvedKeepsModal(i) ==
  /\ download' = FileName(captures[i])
  /\ UNCHANGED isModalOpen
  /\ alertMsg' = ""

\* .then: link.download = ...; link.click(); closePreviewModal()
Resolved(i) ==
  /\ download' = FileName(captures[i])
  /\ isModalOpen' = FALSE
  /\ alertMsg' = ""

\* toPng(...).then of pending capture i.
CaptureResolved(i) ==
  /\ i \in 1..Len(captures)
  /\ captures' = RemoveAt(captures, i)
  /\ Resolved(i)
  /\ last' = NoClick
  /\ UNCHANGED serverVars
  /\ UNCHANGED <<variant, accessToken, searchQuery, searchResults, selectedSong, lyrics,
                 lyricsSource, isSynced, selectedLineIndices, isLoading, isFetchingLyrics,
                 error, selectedFont, selectedGradient, coverKey, coverLoaded, searchReqs,
                 lyricsReqs>>
  /\ imgPending' = ImgPendingNext

\* Variant: the failure is reported and the link clicked all the same.
RejectedDownloads(i) ==
  /\ alertMsg' = "Failed to generate PNG."
  /\ download' = FileName(captures[i])

\* .catch(() => alert("Failed to generate PNG."))
Rejected(i) ==
  /\ alertMsg' = "Failed to generate PNG."
  /\ download' = NoFile

\* toPng(...).catch of pending capture i.
CaptureRejected(i) ==
  /\ i \in 1..Len(captures)
  /\ captures' = RemoveAt(captures, i)
  /\ Rejected(i)
  /\ last' = NoClick
  /\ UNCHANGED serverVars
  /\ UNCHANGED <<variant, accessToken, searchQuery, searchResults, selectedSong, lyrics,
                 lyricsSource, isSynced, selectedLineIndices, isLoading, isFetchingLyrics,
                 error, snippetConfig, searchReqs, lyricsReqs, imgPending>>

(***************************************************************************)
(* Login: the browser leaves for the authorization page and comes back to  *)
(* a freshly mounted component; what was in flight is gone with the old    *)
(* page.                                                                   *)
(***************************************************************************)
HandleSpotifyLogin(hash) ==
  /\ ~LoggedIn
  /\ UNCHANGED serverVars
  /\ variant' = variant
  /\ accessToken' = IF hash = "token" THEN Token ELSE Null
  /\ searchQuery' = ""
  /\ searchResults' = <<>>
  /\ selectedSong' = Null
  /\ lyrics' = <<>>
  /\ lyricsSource' = Null
  /\ isSynced' = FALSE
  /\ selectedLineIndices' = <<>>
  /\ isLoading' = FALSE
  /\ isFetchingLyrics' = FALSE
  /\ error' = IF hash = "error" /\ variant = "part" THEN "Spotify login failed" ELSE ""
  /\ isModalOpen' = FALSE
  /\ selectedFont' = DefaultFont
  /\ selectedGradient' = DefaultGradient
  /\ coverKey' = 0
  /\ coverLoaded' = FALSE
  /\ searchReqs' = <<>>
  /\ lyricsReqs' = <<>>
  /\ imgPending' = FALSE
  /\ captures' = <<>>
  /\ alertMsg' = ""
  /\ download' = NoFile
  /\ last' = NoClick

Next ==
  \/ \E q \in Queries : SetSearchQuery(q)
  \/ HandleSearch
  \/ \E i \in 1..2, o \in SearchOutcomes : SearchResponse(i, o)
  \/ \E song \in Songs : HandleSelectSong(song)
  \/ \E i \in 1..2, o \in LyricsOutcomes : LyricsResponse(i, o)
  \/ \E index \in 0..(NumLines - 1) : HandleLineSelect(index)
  \/ OpenPreviewModal
  \/ ClosePreviewModal
  \/ \E f \in FontChoices : SetSelectedFont(f)
  \/ \E g \in GradientChoices : SetSelectedGradient(g)
  \/ CoverLoadingComplete
  \/ ExportPngFromModal
  \/ \E i \in 1..MaxCaptures : CaptureResolved(i)
  \/ \E i \in 1..MaxCaptures : CaptureRejected(i)
  \/ \E hash \in Hashes : HandleSpotifyLogin(hash)

Spec == Init /\ [][Next]_vars

(***************************************************************************)
(* The backend route (route.ts).                                           *)
(***************************************************************************)
\* GET handlers running at once.
MaxInFlight == 1

\* getSpotifyToken calls and renewal timeouts alive at once.
MaxRenewals == 3

\* data.body['expires_in'] of a grant, in seconds.
ExpiresIn == 3600

\* (expiresIn - 60) * 1000
RenewDelay == (ExpiresIn - 60) * 1000

\* setTimeout(getSpotifyToken, 60000)
RetryDelay == 60000

Delays == {RenewDelay, RetryDelay}

\* The GET handlers waiting for a getSpotifyToken call of their own.
Awaiting == {i \in 1..Len(gets) : gets[i].pc \in {"auth", "refresh"}}

\* The getSpotifyToken calls in flight.
GrantsInFlight == grantCalls + Cardinality(Awaiting)

Renewals == GrantsInFlight + BagCardinality(timeouts)

\* Variant: a failed grant schedules nothing.
ScheduledOnSuccessOnly(ok) == IF ok THEN SetToBag({RenewDelay}) ELSE EmptyBag

\* The timeout getSpotifyToken sets once its grant has settled.
Scheduled(ok) == IF ok THEN SetToBag({RenewDelay}) ELSE SetToBag({RetryDelay})

\* getSpotifyToken after its await: the grant succeeded (ok) or threw.
GrantSettled(ok) ==
  /\ spotifyToken' = IF ok THEN ServerToken ELSE spotifyToken
  /\ timeouts' = timeouts (+) Scheduled(ok)

\* A renewal timeout fires: getSpotifyToken runs up to its await.
TimeoutFires(d) ==
  /\ BagIn(d, timeouts)
  /\ timeouts' = timeouts (-) SetToBag({d})
  /\ grantCalls' = grantCalls + 1
  /\ response' = NoResponse
  /\ UNCHANGED <<spotifyToken, gets, clientVars>>

\* The grant of a getSpotifyToken call nobody awaits settles.
GrantSettles(ok) ==
  /\ grantCalls > 0
  /\ grantCalls' = grantCalls - 1
  /\ GrantSettled(ok)
  /\ response' = NoResponse
  /\ UNCHANGED <<gets, clientVars>>

\* Handler i of `seq` returns `reply`.
Returns(seq, i, req, reply, provider) ==
  /\ gets' = RemoveAt(seq, i)
  /\ response' = Response(reply, provider, req)

\* Handler i of `seq` stops at its next await.
Awaits(seq, i, req) ==
  /\ gets' = [seq EXCEPT ![i] = req]
  /\ response' = NoResponse

\* Variant: complete lyrics parameters take precedence over the query.
RoutedLyricsFirst(req) ==
  IF req.params = ParamNames THEN [req EXCEPT !.pc = "lrclib", !.fetches = 1]
  ELSE IF req.query # "" THEN [req EXCEPT !.pc = "search", !.searches = 1]
  ELSE [req EXCEPT !.pc = "return"]

\* if (query) ... else if (trackName && artistName && albumName && durationStr)
\* ... else ...: the call the handler makes next, "return" when it makes none.
Routed(req) ==
  IF req.query # "" THEN [req EXCEPT !.pc = "search", !.searches = 1]
  ELSE IF req.params = ParamNames THEN [req EXCEPT !.pc = "lrclib", !.fetches = 1]
  ELSE [req EXCEPT !.pc = "return"]

MissingParameters ==
  Reply(400, "error", "Either query (for search) or trackName, artistName, albumName, and duration (for lyrics) parameters are required")

\* The handler from line 56 to its await or to the 400 of line 151.
Dispatch(seq, i, req) ==
  IF Routed(req).pc = "return"
    THEN Returns(seq, i, Routed(req), MissingParameters, 0)
    ELSE Awaits(seq, i, Routed(req))

QueryValues == {"", "a"}

\* The lyrics parameters a request comes with: all four, all but one, none.
ParamSets == {ParamNames, {}} \cup {ParamNames \ {p} : p \in ParamNames}

\* A request arrives: GET runs to its first await or to its return.
GetBody(q, ps) ==
  /\ Len(gets) < MaxInFlight
  /\ LET req == NewRequest(q, ps)
         seq == Append(gets, req)
     IN IF spotifyToken = Null
          THEN /\ Renewals < MaxRenewals
               /\ Awaits(seq, Len(seq), [req EXCEPT !.pc = "auth", !.grants = 1])
          ELSE Dispatch(seq, Len(seq), req)
  /\ UNCHANGED <<spotifyToken, timeouts, grantCalls>>

\* The same with the page left alone.
Get(q, ps) == GetBody(q, ps) /\ UNCHANGED clientVars

CouldNotAuthenticate ==
  Reply(503, "error", "Could not authenticate with Spotify. Check credentials.")

\* The getSpotifyToken call of line 50 returns to handler i.
AuthSettlesBody(i, ok) ==
  /\ i \in 1..Len(gets)
  /\ gets[i].pc = "auth"
  /\ GrantSettled(ok)
  /\ IF spotifyToken' = Null
       THEN Returns(gets, i, gets[i], CouldNotAuthenticate, 0)
       ELSE Dispatch(gets, i, gets[i])
  /\ UNCHANGED grantCalls

\* The same with the page left alone.
AuthSettles(i, ok) == AuthSettlesBody(i, ok) /\ UNCHANGED clientVars

\* What searchTracks ends with: 200, or the statusCode of the error it
\* throws, 0 for an error that has none.
CatalogOutcomes == {200, 401, 429, 0}

Results == Reply(200, "results", "")

\* { status: spotifyError.statusCode || 500 }
SearchFailed(text, o) == Reply(IF o = 0 THEN 500 ELSE o, "error", text)

\* The first searchTracks of handler i settles.
SearchSettlesBody(i, o) ==
  /\ i \in 1..Len(gets)
  /\ gets[i].pc = "search"
  /\ IF o = 200 THEN Returns(gets, i, gets[i], Results, o)
     ELSE IF o = 401
       THEN /\ Renewals < MaxRenewals
            /\ Awaits(gets, i, [gets[i] EXCEPT !.pc = "refresh", !.grants = @ + 1])
     ELSE Returns(gets, i, gets[i], SearchFailed("Spotify search failed", o), o)
  /\ UNCHANGED <<spotifyToken, timeouts, grantCalls>>

\* The same with the page left alone.
SearchSettles(i, o) == SearchSettlesBody(i, o) /\ UNCHANGED clientVars

\* The getSpotifyToken call of line 78 returns to handler i, which searches
\* again.
RefreshSettles(i, ok) ==
  /\ i \in 1..Len(gets)
  /\ gets[i].pc = "refresh"
  /\ GrantSettled(ok)
  /\ Awaits(gets, i, [gets[i] EXCEPT !.pc = "retry", !.searches = @ + 1])
  /\ UNCHANGED <<grantCalls, clientVars>>

\* The second searchTracks of handler i settles.
RetrySettlesBody(i, o) ==
  /\ i \in 1..Len(gets)
  /\ gets[i].pc = "retry"
  /\ IF o = 200 THEN Returns(gets, i, gets[i], Results, o)
     ELSE Returns(gets, i, gets[i],
                  SearchFailed("Spotify search failed after token refresh", o), o)
  /\ UNCHANGED <<spotifyToken, timeouts, grantCalls>>

\* The same with the page left alone.
RetrySettles(i, o) == RetrySettlesBody(i, o) /\ UNCHANGED clientVars

\* What axios.get ends with: `thrown` tells whether it threw, `axios`
\* whether what it threw is an AxiosError, `status` the provider's status (0
\* when no response came), `plain` whether the body has plainLyrics.  axios
\* resolves on a 2xx status and throws on any other.
LrclibOutcome(thrown, axios, status, plain) ==
  [thrown |-> thrown, axios |-> axios, status |-> status, plain |-> plain]

LrclibOutcomes ==
  { LrclibOutcome(FALSE, FALSE, 200, TRUE), LrclibOutcome(FALSE, FALSE, 200, FALSE),
    LrclibOutcome(FALSE, FALSE, 204, FALSE), LrclibOutcome(TRUE, TRUE, 404, FALSE),
    LrclibOutcome(TRUE, TRUE, 500, FALSE), LrclibOutcome(TRUE, TRUE, 0, FALSE),
    LrclibOutcome(TRUE, FALSE, 0, FALSE) }

NoLyricsFound == Reply(200, "null", "No lyrics found for this track.")

\* Variant: a 404 of the provider is reported like its other failures.
LrclibCaughtAsFailure(o) ==
  IF o.axios
    THEN Reply(502, "error", "Failed to fetch lyrics from LRCLIB")
    ELSE Reply(500, "error", "An unexpected error occurred while fetching lyrics from LRCLIB.")

\* catch (lrclibError), lines 136-148
LrclibCaught(o) ==
  IF o.axios
    THEN IF (IF o.status = 0 THEN 500 ELSE o.status) = 404
           THEN NoLyricsFound
           ELSE Reply(502, "error", "Failed to fetch lyrics from LRCLIB")
    ELSE Reply(500, "error", "An unexpected error occurred while fetching lyrics from LRCLIB.")

\* The lyrics branch after its await, lines 113-148.
LrclibReply(o) ==
  IF o.thrown THEN LrclibCaught(o)
  ELSE IF o.status = 404 THEN NoLyricsFound
  ELSE IF o.status # 200 THEN Reply(502, "error", "LRCLIB request failed")
  ELSE IF ~o.plain THEN Reply(200, "null", "Lyrics found but content is empty.")
  ELSE Reply(200, "lyrics", "")

\* The axios.get of handler i settles.
LrclibSettles(i, o) ==
  /\ i \in 1..Len(gets)
  /\ gets[i].pc = "lrclib"
  /\ Returns(gets, i, gets[i], LrclibReply(o), o.status)
  /\ UNCHANGED <<spotifyToken, timeouts, grantCalls, clientVars>>

ServerInit == Mounted("page", "none")

ServerNext ==
  \/ \E d \in Delays : TimeoutFires(d)
  \/ \E ok \in BOOLEAN : GrantSettles(ok)
  \/ \E q \in QueryValues, ps \in ParamSets : Get(q, ps)
  \/ \E i \in 1..MaxInFlight, ok \in BOOLEAN : AuthSettles(i, ok)
  \/ \E i \in 1..MaxInFlight, o \in CatalogOutcomes : SearchSettles(i, o)
  \/ \E i \in 1..MaxInFlight, ok \in BOOLEAN : RefreshSettles(i, ok)
  \/ \E i \in 1..MaxInFlight, o \in CatalogOutcomes : RetrySettles(i, o)
  \/ \E i \in 1..MaxInFlight, o \in LrclibOutcomes : LrclibSettles(i, o)

ServerSpec == ServerInit /\ [][ServerNext]_vars

\* A pending timeout fires and a pending grant settles, sooner or later: the
\* event loop runs every timeout that is due and every grant call ends, with
\* a token or with an error.
RenewalSpec ==
  /\ ServerSpec
  /\ WF_vars(\E d \in Delays : TimeoutFires(d))
  /\ WF_vars(\E ok \in BOOLEAN : GrantSettles(ok))
  /\ WF_vars(\E i \in 1..MaxInFlight, ok \in BOOLEAN : AuthSettles(i, ok))
  /\ WF_vars(\E i \in 1..MaxInFlight, ok \in BOOLEAN : RefreshSettles(i, ok))

(***************************************************************************)
(* Line clicks alone, from a loaded lyrics panel, with the inputs of each  *)
(* click logged.                                                           *)
(***************************************************************************)
\* The state with `song` selected, its lyrics loaded and `sel` selected;
\* `font` and `loaded` are what the last modal session set, `open` tells
\* whether the modal is open and `caps` are the captures pending.
Held(v, song, sel, font, loaded, open, caps) ==
  /\ variant = v
  /\ accessToken = Token
  /\ searchQuery = "a"
  /\ searchResults = Catalog("a")
  /\ selectedSong = song
  /\ lyrics = PlainLyrics(song)
  /\ lyricsSource = "lrclib"
  /\ isSynced = FALSE
  /\ selectedLineIndices = sel
  /\ isLoading = FALSE
  /\ isFetchingLyrics = FALSE
  /\ error = ""
  /\ isModalOpen = open
  /\ selectedFont = font
  /\ selectedGradient = DefaultGradient
  /\ coverKey = 0
  /\ coverLoaded = loaded
  /\ searchReqs = <<>>
  /\ lyricsReqs = <<>>
  /\ imgPending = (open /\ HasThumbnail(song) /\ ~loaded)
  /\ captures = caps
  /\ alertMsg = ""
  /\ download = NoFile
  /\ last = NoClick
  /\ ServerStarted

\* The same with the modal closed and no capture pending.
LoadedWith(v, song, sel, font, loaded) == Held(v, song, sel, font, loaded, FALSE, <<>>)

\* The same before any modal session.
Loaded(v, song, sel) == LoadedWith(v, song, sel, DefaultFont, FALSE)

SelectInit == \E v \in Variants : Loaded(v, "s3", <<>>)

SelectNext == \E index \in 0..(NumLines - 1) : LoggedLineSelect(index)

SelectSpec == SelectInit /\ [][SelectNext]_vars

(***************************************************************************)
(* Properties of the line selection.                                       *)
(***************************************************************************)
SetMin(S) == CHOOSE x \in S : \A y \in S : x <= y

SetMax(S) == CHOOSE x \in S : \A y \in S : x >= y

Distinct(s) == Cardinality(Range(s)) = Len(s)

GapFree(S) == \A x \in SetMin(S)..SetMax(S) : x \in S

\* A non-empty array of distinct indices that form a gap-free run.
IsRun(s) == s # <<>> /\ Distinct(s) /\ GapFree(Range(s))

\* The click logged in `last` was on a non-member next to the run's ends.
ClickedNextToRun ==
  \/ last.index = SetMin(Range(last.prev)) - 1
  \/ last.index = SetMax(Range(last.prev)) + 1

C2_MemberClickClears ==
  (last.clicked /\ last.prev # <<>> /\ last.index \in Range(last.prev))
    => (selectedLineIndices = <<>> /\ alertMsg = "")

\* A member of a full selection was clicked.
C2_Witness ==
  /\ last.clicked
  /\ Len(last.prev) = 4
  /\ last.index \in Range(last.prev)
  /\ selectedLineIndices = <<>>

\* C3: a click on a non-member next to either end of a selection of fewer
\* than 4 lines adds exactly that index: the members are the previous ones
\* plus the clicked one.
C3_AdjacentExtends ==
  (/\ last.clicked
   /\ last.prev # <<>>
   /\ Len(last.prev) < 4
   /\ last.index \notin Range(last.prev)
   /\ ClickedNextToRun)
    => /\ Range(selectedLineIndices) = Range(last.prev) \cup {last.index}
       /\ Len(selectedLineIndices) = Len(last.prev) + 1
       /\ alertMsg = ""

\* The last of the clicks 2, 3, 1, 0.
C3_Witness ==
  /\ last.clicked
  /\ last.prev = <<2, 3, 1>>
  /\ last.index = 0
  /\ Range(selectedLineIndices) = {0, 1, 2, 3}

\* C4: with 4 lines selected, a click on any non-member raises the limit
\* alert and leaves the selection as it was.
C4_FullRejects ==
  (last.clicked /\ Len(last.prev) = 4 /\ last.index \notin Range(last.prev))
    => (selectedLineIndices = last.prev /\ alertMsg = "Only 4 lines allowed.")

\* A rejected click away from the run.
C4_Witness ==
  /\ last.clicked
  /\ Len(last.prev) = 4
  /\ last.index \notin Range(last.prev)
  /\ ~ClickedNextToRun
  /\ alertMsg = "Only 4 lines allowed."

\* C5: with fewer than 4 lines selected, a click on a non-member that is not
\* next to the run's ends makes the selection that one line, with no alert.
C5_NonAdjacentRestarts ==
  (/\ last.clicked
   /\ last.prev # <<>>
   /\ Len(last.prev) < 4
   /\ last.index \notin Range(last.prev)
   /\ ~ClickedNextToRun)
    => (selectedLineIndices = <<last.index>> /\ alertMsg = "")

\* A run of 3 replaced by a line away from it.
C5_Witness ==
  /\ last.clicked
  /\ Len(last.prev) = 3
  /\ last.index \notin Range(last.prev)
  /\ ~ClickedNextToRun
  /\ selectedLineIndices = <<last.index>>

(***************************************************************************)
(* Song selection, search and the selection.                               *)
(***************************************************************************)
\* C6 (as claimed): the step that starts a lyrics fetch leaves the selection
\* and the lyrics text empty.
C6_SelectSongClears ==
  [][Len(lyricsReqs') > Len(lyricsReqs)
       => (selectedLineIndices' = <<>> /\ lyrics' = <<>>)]_vars

\* C7 (as claimed): the selection is empty after every step that stores a
\* new lyrics text and after every step that submits a search.
C7_EmptyAfterLoadOrSearch ==
  [][(lyrics' # lyrics \/ Len(searchReqs') > Len(searchReqs))
       => selectedLineIndices' = <<>>]_vars

(***************************************************************************)
(* The preview modal over arbitrary selection arrays: openPreviewModal is  *)
(* called whatever the array holds, as its own validation allows for, and  *)
(* exportPngFromModal whether or not its button is there to be clicked.    *)
(***************************************************************************)
\* Length and index span of the arrays openPreviewModal is tried on.
ArbLen == 3
ArbSpan == 4

ArbSelections == UNION {[1..n -> 0..(ArbSpan - 1)] : n \in 0..ArbLen}

OpenInit ==
  \E v \in Variants, song \in Songs, sel \in ArbSelections,
     font \in FontChoices, loaded \in BOOLEAN :
    LoadedWith(v, song, sel, font, loaded)

OpenNext ==
  \/ OpenPreviewModalBody
  \/ ClosePreviewModal
  \/ \E f \in FontChoices : SetSelectedFont(f)
  \/ \E g \in GradientChoices : SetSelectedGradient(g)
  \/ CoverLoadingComplete
  \/ ExportPngFromModal
  \/ ExportPngFromModalBody
  \/ \E i \in 1..MaxCaptures : CaptureResolved(i)
  \/ \E i \in 1..MaxCaptures : CaptureRejected(i)
  \/ \E index \in 0..(NumLines - 1) : HandleLineSelect(index)

OpenSpec == OpenInit /\ [][OpenNext]_vars

\* C8: a capture starts only with the modal open and a non-empty run
\* selected; openPreviewModal on an empty or non-contiguous array raises an
\* alert and leaves the modal closed and the cover key, the cover-loaded
\* flag, the font and the gradient as they were.
C8_ExportNeedsRun ==
  [][/\ Len(captures') > Len(captures) => (isModalOpen /\ IsRun(selectedLineIndices))
     /\ (OpenPreviewModalBody /\ ~IsRun(selectedLineIndices))
          => /\ alertMsg' \in {"Please select some lyrics lines first.",
                               "Please select consecutive lines."}
             /\ ~isModalOpen'
             /\ UNCHANGED <<isModalOpen, coverKey, coverLoaded, selectedFont,
                            selectedGradient>>]_vars

\* openPreviewModal has refused an array with a gap, after a session that
\* left an edited font and a loaded cover behind.
C8_Witness ==
  /\ alertMsg = "Please select consecutive lines."
  /\ ~IsRun(selectedLineIndices)
  /\ ~isModalOpen
  /\ selectedFont # DefaultFont
  /\ coverLoaded

(***************************************************************************)
(* The export button and the cover image.                                  *)
(***************************************************************************)
\* C9: while the modal shows a track with a thumbnail and the cover image
\* mounted in it has not reported its load, the export button is disabled.
C9_NoExportBeforeCoverLoad ==
  (ModalShown /\ HasThumbnail(selectedSong) /\ imgPending)
    => (ExportDisabled /\ ~ENABLED ExportPngFromModal)

\* A later session of the modal, its cover still loading, after the cover
\* key has come round.
C9_Witness ==
  /\ ModalShown
  /\ HasThumbnail(selectedSong)
  /\ imgPending
  /\ coverKey = 0
  /\ ExportDisabled

\* C10: while the modal shows a track without a thumbnail, no cover load is
\* awaited or has been reported, and the export button is enabled.
C10_NoThumbnailReady ==
  (ModalShown /\ ~HasThumbnail(selectedSong))
    => /\ ~coverLoaded
       /\ ~ENABLED CoverLoadingComplete
       /\ ExportEnabled
       /\ Len(captures) < MaxCaptures => ENABLED ExportPngFromModal

\* The modal is open on the track without a thumbnail.
C10_Witness ==
  /\ ModalShown
  /\ selectedSong = "s2"
  /\ ~coverLoaded
  /\ ExportEnabled

(***************************************************************************)
(* The outcomes of an export.                                              *)
(***************************************************************************)
FileNames == {FileName(Title(song)) : song \in Songs}

\* C11: every step that settles a capture either clicks one download link and
\* leaves the modal closed, or raises the failure alert, downloads nothing,
\* leaves the modal, the selection, the font, the gradient and the cover flag
\* as they were, and leaves an enabled export button enabled.
C11_CaptureOutcomes ==
  [][Len(captures') < Len(captures)
       => \/ /\ download' \in FileNames
             /\ ~isModalOpen'
             /\ alertMsg' = ""
          \/ /\ alertMsg' = "Failed to generate PNG."
             /\ download' = NoFile
             /\ UNCHANGED <<isModalOpen, selectedSong, selectedLineIndices,
                            selectedFont, selectedGradient, coverLoaded>>
             /\ ExportEnabled => ExportEnabled']_vars

\* A capture of the modal with an edited font has resolved: the file is
\* downloaded and the modal closed.
C11_Witness ==
  /\ download \in FileNames
  /\ ~isModalOpen
  /\ selectedFont # DefaultFont
  /\ captures = <<>>

\* C12: a step that raises one of the two export failure alerts clicks no
\* download link.
C12_NoFileOnFailure ==
  alertMsg \in {"Error preparing image.", "Failed to generate PNG."} => download = NoFile

\* A capture has been rejected with the modal still open.
C12_Witness ==
  /\ alertMsg = "Failed to generate PNG."
  /\ download = NoFile
  /\ ModalShown
  /\ ExportEnabled

(***************************************************************************)
(* A new modal session.                                                    *)
(***************************************************************************)
\* C13: every step that takes the modal from closed to open ends with the
\* default font, the default gradient and the cover not loaded.
C13_OpenStartsFresh ==
  [][(~isModalOpen /\ isModalOpen')
       => /\ selectedFont' = DefaultFont
          /\ selectedGradient' = DefaultGradient
          /\ ~coverLoaded']_vars

\* The modal has been opened a second time, on the track with a cover.
C13_Witness ==
  /\ ModalShown
  /\ HasThumbnail(selectedSong)
  /\ coverKey = 0
  /\ selectedFont = DefaultFont
  /\ selectedGradient = DefaultGradient
  /\ ~coverLoaded

(***************************************************************************)
(* The lines of the snippet.                                               *)
(***************************************************************************)
\* C14: for every selection the clicks produce, getSelectedLineContent is the
\* text of the selected lines from the lowest index to the highest, one
\* entry per selected index, whatever the order of the clicks.
C14_ContentAscending ==
  selectedLineIndices # <<>>
    => /\ Len(getSelectedLineContent) = Len(selectedLineIndices)
       /\ \A k \in 1..Len(selectedLineIndices) :
            getSelectedLineContent[k]
              = lyricsLines[SetMin(Range(selectedLineIndices)) + k]

\* Lines 3, 2, 4 clicked in that order give the texts of lines 2, 3, 4.
C14_Witness ==
  /\ selectedLineIndices = <<3, 2, 4>>
  /\ getSelectedLineContent = <<LineText(2), LineText(3), LineText(4)>>

\* C15 (as claimed): the snippet the modal shows has one line per selected
\* index, none of them empty, and a selected empty lyric line is shown as
\* the non-breaking blank.
C15_BlankLinesKept ==
  ModalShown
    => /\ Len(SnippetLines) = Len(selectedLineIndices)
       /\ \A k \in 1..Len(SnippetLines) :
            /\ SnippetLines[k] # <<>>
            /\ getSelectedLineContent[k] = <<>> => SnippetLines[k] = <<Nbsp>>

(***************************************************************************)
(* The name of the downloaded file, over every title of a small alphabet:  *)
(* the modal is open and a capture is pending for a track of that title.   *)
(***************************************************************************)
\* Longest title tried.
MaxTitleLen == 2

TitleChars == LowerChars \cup UpperChars \cup DigitChars \cup OtherChars

Titles == UNION {[1..n -> TitleChars] : n \in 0..MaxTitleLen}

NameInit ==
  \E v \in Variants, t \in Titles : Held(v, "s1", <<0>>, DefaultFont, TRUE, TRUE, <<t>>)

NameNext ==
  \/ \E i \in 1..MaxCaptures : CaptureResolved(i)
  \/ \E i \in 1..MaxCaptures : CaptureRejected(i)
  \/ ExportPngFromModal

NameSpec == NameInit /\ [][NameNext]_vars

\* The title without its characters outside [a-zA-Z0-9], in lower case.
StrippedStem(t) ==
  LET kept == SelectSeq(t, LAMBDA ch : ch \in LowerChars \cup UpperChars \cup DigitChars)
  IN [k \in 1..Len(kept) |-> ToLowerCase(kept[k])]

\* The title with "_" for each character outside [a-zA-Z0-9], in lower case.
UnderscoredStem(t) ==
  [k \in 1..Len(t) |->
     IF t[k] \in UpperChars THEN ToLowerCase(t[k])
     ELSE IF t[k] \in LowerChars \cup DigitChars THEN t[k]
     ELSE "_"]

\* C16 (as claimed): the file a resolved capture downloads is named by the
\* title with its non-alphanumeric characters removed, in lower case, then
\* "_selection.png"; the stem holds characters of [a-z0-9] only.
C16_NameStripped ==
  [][\A i \in 1..Len(captures) :
       (captures' = RemoveAt(captures, i) /\ download' # NoFile)
         => /\ download' = StrippedStem(captures[i]) \o Suffix
            /\ \A k \in 1..(Len(download') - Len(Suffix)) :
                 download'[k] \in LowerChars \cup DigitChars]_vars

\* C16 (amended): the name is the title with "_" in place of each
\* non-alphanumeric character, in lower case, then "_selection.png"; the
\* stem is as long as the title and holds characters of [a-z0-9_] only.
C16_NameUnderscored ==
  [][\A i \in 1..Len(captures) :
       (captures' = RemoveAt(captures, i) /\ download' # NoFile)
         => /\ download' = UnderscoredStem(captures[i]) \o Suffix
            /\ Len(download') = Len(captures[i]) + Len(Suffix)
            /\ \A k \in 1..Len(captures[i]) :
                 download'[k] \in LowerChars \cup DigitChars \cup {"_"}]_vars

\* The file for the title "A!" has been downloaded as a__selection.png.
C16_Witness ==
  /\ download = <<"a", "_", "_selection", ".png">>
  /\ captures = <<>>
  /\ ~isModalOpen

(***************************************************************************)
(* The bearer token and the 401 answer.                                    *)
(***************************************************************************)
\* C17: once a search or lyrics call has ended with the 401 message the
\* token is null; and while the token is null the login view stands in for
\* the page: no search can be submitted, no track picked, no query typed.
C17_Unauthorized ==
  /\ error = "Spotify session expired." => accessToken = Null
  /\ accessToken = Null
       => /\ ~ENABLED HandleSearch
          /\ \A song \in Songs : ~ENABLED HandleSelectSong(song)
          /\ \A q \in Queries : ~ENABLED SetSearchQuery(q)

\* A 401 has arrived with results listed, a query typed and nothing in
\* flight: all that keeps the user from a new request is the login view.
C17_Witness ==
  /\ accessToken = Null
  /\ error = "Spotify session expired."
  /\ Len(searchResults) > 0
  /\ TrimNonEmpty(searchQuery)
  /\ ~isLoading
  /\ ~isFetchingLyrics

\* C18 (as claimed): the step in which a lyrics fetch ends with a 401 leaves
\* the token null and the selection empty.
C18_UnauthorizedClearsSelection ==
  [][(Len(lyricsReqs') < Len(lyricsReqs) /\ error' = "Spotify session expired.")
       => (accessToken' = Null /\ selectedLineIndices' = <<>>)]_vars

(***************************************************************************)
(* Requests in flight.                                                     *)
(***************************************************************************)
\* C19 (as claimed): at most one request, search or lyrics, is in flight,
\* and while isLoading or isFetchingLyrics is true no search can be
\* submitted and no track picked.
C19_OneRequestInFlight ==
  /\ Len(searchReqs) + Len(lyricsReqs) <= 1
  /\ (isLoading \/ isFetchingLyrics)
       => /\ ~ENABLED HandleSearch
          /\ \A song \in Songs : ~ENABLED HandleSelectSong(song)

\* C20: no two searches are in flight together, so the responses come in
\* the order of the submissions: every step that changes the listed results
\* is the response to the only search in flight, the last one submitted,
\* and lists what that search found (or is the reload of the page on login).
C20_NoStaleSearch ==
  [][/\ Len(searchReqs') <= 1
     /\ searchResults' # searchResults
          => \/ accessToken = Null
             \/ /\ Len(searchReqs) = 1
                /\ searchReqs' = <<>>
                /\ searchResults' \in {Catalog(searchReqs[1]), <<>>}]_vars

\* A later search has answered with no match after an earlier one listed
\* the tracks one of which is selected.
C20_Witness ==
  /\ selectedSong # Null
  /\ searchResults = <<>>
  /\ error = "No songs found."
  /\ searchReqs = <<>>
  /\ accessToken # Null

(***************************************************************************)
(* C21: isLoading is true exactly while a search request is in flight and  *)
(* isFetchingLyrics exactly while a lyrics request is in flight, whatever  *)
(* the outcome of the request; the search input and the submit button are  *)
(* disabled while either request is in flight, and on the logged-in page   *)
(* with nothing in flight the input is enabled, and so is the button as    *)
(* soon as the query is not blank.                                         *)
(***************************************************************************)
C21_BusyWhileInFlight ==
  /\ isLoading <=> searchReqs # <<>>
  /\ isFetchingLyrics <=> lyricsReqs # <<>>
  /\ (searchReqs # <<>> \/ lyricsReqs # <<>>) => ~SearchInputEnabled /\ ~SubmitEnabled
  /\ (LoggedIn /\ searchReqs = <<>> /\ lyricsReqs = <<>>) =>
       /\ SearchInputEnabled
       /\ TrimNonEmpty(searchQuery) => SubmitEnabled

\* A search has failed and the controls are usable again.
C21_Witness ==
  /\ error = "Request failed"
  /\ ~isLoading /\ ~isFetchingLyrics
  /\ searchReqs = <<>> /\ lyricsReqs = <<>>
  /\ SearchInputEnabled /\ SubmitEnabled

(***************************************************************************)
(* C22: the response of a failed search or lyrics request (a 401, another  *)
(* non-OK status or a transport exception) leaves `error` holding a        *)
(* non-empty message, and leaves the search results and the lyrics held    *)
(* before it as they were.                                                 *)
(***************************************************************************)
FailureOutcomes == {"401", "failed"}

\* The page without its preview modal: queries, searches, song selection,
\* line clicks and logins.
FetchNext ==
  \/ \E q \in Queries : SetSearchQuery(q)
  \/ HandleSearch
  \/ \E i \in 1..2, o \in SearchOutcomes : SearchResponse(i, o)
  \/ \E song \in Songs : HandleSelectSong(song)
  \/ \E i \in 1..2, o \in LyricsOutcomes : LyricsResponse(i, o)
  \/ \E index \in 0..(NumLines - 1) : HandleLineSelect(index)
  \/ \E hash \in Hashes : HandleSpotifyLogin(hash)

FetchSpec == Init /\ [][FetchNext]_vars

C22_FailureKeepsData ==
  [][\A i \in 1..2, o \in FailureOutcomes :
       (SearchResponse(i, o) \/ LyricsResponse(i, o)) =>
          /\ error' # ""
          /\ UNCHANGED <<searchResults, lyrics>>]_vars

\* A lyrics request has failed while results and lyrics were held.
C22_Witness ==
  /\ error = "Request failed"
  /\ lyricsReqs = <<>> /\ searchReqs = <<>>
  /\ selectedSong = "s2"
  /\ lyrics = PlainLyrics("s1")
  /\ searchResults # <<>>

(***************************************************************************)
(* C24: a lyrics response with lyrics = null and a message, and a search   *)
(* response with zero results, each leave the page showing a piece of      *)
(* information about it, and the error paragraph, which is what a failure  *)
(* shows, empty.                                                           *)
(***************************************************************************)
C24_NotFoundIsInformation ==
  [][\A i \in 1..2 :
       (LyricsResponse(i, "notfound") \/ SearchResponse(i, "empty")) =>
          /\ InfoTexts' # {}
          /\ ErrorText' = ""]_vars

(***************************************************************************)
(* Line clicks from selections held in any insertion order.                *)
(***************************************************************************)
\* The arrays of at most MAX_SELECTED_LINES distinct line indices.
OrderedSelections ==
  {s \in UNION {[1..n -> 0..(NumLines - 1)] : n \in 0..MAX_SELECTED_LINES} : Distinct(s)}

OrderInit == \E v \in Variants, sel \in OrderedSelections : Loaded(v, "s3", sel)

OrderNext == \E index \in 0..(NumLines - 1) : LoggedLineSelect(index)

OrderSpec == OrderInit /\ [][OrderNext]_vars

\* The arrays holding the members of s in any order.
Reorderings(s) == {t \in [1..Len(s) -> Range(s)] : Range(t) = Range(s)}

(***************************************************************************)
(* C26: a click on a line gives, from every array holding the same         *)
(* members as the selection clicked on, in whatever order, the same set of *)
(* selected indices and the same notice.                                   *)
(***************************************************************************)
C26_OrderIrrelevant ==
  last.clicked =>
    \A t \in Reorderings(last.prev) :
       /\ Range(LineSelectUpdate(t, last.index).sel) = Range(selectedLineIndices)
       /\ LineSelectUpdate(t, last.index).alert = alertMsg

\* A selection inserted out of order was extended at its lower end.
C26_Witness ==
  /\ last.clicked
  /\ last.prev = <<3, 1, 2>>
  /\ last.index = 0
  /\ Range(selectedLineIndices) = {0, 1, 2, 3}

(***************************************************************************)
(* C29: every selected index is a position of the lyrics held, at least 0  *)
(* and below the number of lyric lines, so that every line of the snippet  *)
(* is the text of the lyric line at its index.                             *)
(***************************************************************************)
C29_SelectionInRange ==
  /\ \A k \in 1..Len(selectedLineIndices) :
        selectedLineIndices[k] \in 0..(Len(lyricsLines) - 1)
  /\ lyrics # <<>> =>
        \A k \in 1..Len(selectedLineIndices) :
           getSelectedLineContent[k] = lyricsLines[SortAsc(selectedLineIndices)[k] + 1]

(***************************************************************************)
(* C30: whenever the lyrics panel or the export modal is shown for         *)
(* selectedSong, the lyrics held are those the backend returned for that   *)
(* song (its text, or none when it has no lyrics): the lyrics of a song    *)
(* selected before are never shown or exported under the new song.         *)
(***************************************************************************)
C30_LyricsOfSelectedSong ==
  (LyricsShown \/ ModalShown) => lyrics \in {PlainLyrics(selectedSong), <<>>}

(***************************************************************************)
(* C27: every getSpotifyToken call that completes schedules one renewal,   *)
(* (expires_in - 60) seconds later when its grant succeeded and 60 seconds *)
(* later when it failed; hence, timeouts firing and grants settling, a     *)
(* grant is attempted again and again, whatever grants fail.               *)
(***************************************************************************)
C27_RenewalNeverStops ==
  /\ [][\A ok \in BOOLEAN :
          (\/ GrantSettles(ok)
           \/ \E i \in 1..MaxInFlight : AuthSettles(i, ok) \/ RefreshSettles(i, ok))
          => timeouts' = timeouts (+) SetToBag({IF ok THEN RenewDelay ELSE RetryDelay})]_vars
  /\ []<>(GrantsInFlight > 0)

\* The grant of the first call failed and its retry is scheduled.
C27_Witness ==
  /\ spotifyToken = Null
  /\ GrantsInFlight = 0
  /\ timeouts = SetToBag({RetryDelay})

(***************************************************************************)
(* C23: when the lyrics provider answers 404, the response of the backend  *)
(* has status 200 and a body with lyrics = null and a message.             *)
(***************************************************************************)
C23_NotFoundIsSuccess ==
  (response.request.pc = "lrclib" /\ response.provider = 404) =>
     /\ response.status = 200
     /\ response.kind = "null"
     /\ response.message # ""

\* A lyrics request has been answered after a 404 of the provider.
C23_Witness ==
  /\ response.request.pc = "lrclib"
  /\ response.request.params = ParamNames
  /\ response.provider = 404
  /\ response.status = 200
  /\ gets = <<>>

(***************************************************************************)
(* C25: a handler whose catalog search fails with 401 refreshes the        *)
(* backend's token and searches once more, so that no handler searches     *)
(* more than twice; the 401 does not reach the caller: the response of a   *)
(* search carries the results of the retry or an error whose status is     *)
(* not 401.                                                                *)
(***************************************************************************)
C25_RetryOnceSilently ==
  /\ \A i \in 1..Len(gets) : gets[i].searches <= 2
  /\ response.request.query # "" =>
        /\ response.request.searches <= 2
        /\ response.request.pc = "retry" => response.request.searches = 2
        /\ response.status # 401

(***************************************************************************)
(* What C28 says of a response r, clause by clause.                        *)
(***************************************************************************)
\* A handler that ends returns one response, and only one handler ends in
\* a step.
OneResponse ==
  [][Len(gets') < Len(gets) =>
       (Len(gets') = Len(gets) - 1 /\ response' # NoResponse)]_vars

\* A request with a query that got past the token check was searched for,
\* whatever lyrics parameters came with it.
QueryIsSearched(r) ==
  (r.request.query # "" /\ r.status # 503) =>
     /\ r.kind \in {"results", "error"}
     /\ r.request.searches >= 1
     /\ r.request.fetches = 0

\* r answers a request that has no query and lacks a lyrics parameter.
BadRequest(r) ==
  r # NoResponse /\ r.request.query = "" /\ r.request.params # ParamNames

\* A status of the lyrics provider other than 200 and 404 gives a 502 error.
UpstreamIsBadGateway(r) ==
  (r.request.pc = "lrclib" /\ r.provider \notin {0, 200, 404}) =>
     (r.status = 502 /\ r.kind = "error")

\* The backend holds no token and its grant gave none: the response is 503.
NoTokenIsUnavailable(r) ==
  /\ (r # NoResponse /\ spotifyToken = Null) => r.status = 503
  /\ r.status = 503 => (spotifyToken = Null /\ r.request.grants = 1 /\ r.kind = "error")

(***************************************************************************)
(* C28 as stated: every GET produces exactly one response; a request with  *)
(* a non-empty query is handled as a search, lyrics parameters or not; a   *)
(* request with no query and a lyrics parameter missing or empty gets 400  *)
(* without any call to a provider; a provider status other than 200 and    *)
(* 404 gives an error with status 502; when no catalog token can be        *)
(* obtained the request gets 503.                                          *)
(***************************************************************************)
C28_OneResponsePerRoute ==
  /\ OneResponse
  /\ [](/\ QueryIsSearched(response)
        /\ BadRequest(response) =>
              /\ response.status = 400
              /\ response.request.searches = 0
              /\ response.request.fetches = 0
              /\ response.request.grants = 0
        /\ UpstreamIsBadGateway(response)
        /\ NoTokenIsUnavailable(response))

(***************************************************************************)
(* C28 amended: every GET produces exactly one response; the token check   *)
(* comes first: a request that finds the backend without a token waits     *)
(* for one grant attempt and gets 503 when that gives no token, whatever   *)
(* its parameters; past the check, a request with a non-empty query is     *)
(* handled as a search, lyrics parameters or not, and a request with no    *)
(* query and a lyrics parameter missing or empty gets 400 without any      *)
(* call to the catalog search or to the lyrics provider; a status of the   *)
(* lyrics provider other than 200 and 404 gives an error with status 502.  *)
(***************************************************************************)
C28_TokenCheckFirst ==
  /\ OneResponse
  /\ [](/\ QueryIsSearched(response)
        /\ BadRequest(response) =>
              /\ response.status \in {400, 503}
              /\ response.request.searches = 0
              /\ response.request.fetches = 0
              /\ response.status = 400 => spotifyToken # Null
        /\ UpstreamIsBadGateway(response)
        /\ NoTokenIsUnavailable(response))

\* A request without query and without duration found no token, and the
\* grant it waited for failed.
C28_Witness ==
  /\ response.request.query = ""
  /\ response.request.params = ParamNames \ {"duration"}
  /\ response.request.grants = 1
  /\ response.status = 503
  /\ spotifyToken = Null

(***************************************************************************)
(* C31: while the export modal is shown, and so whenever its Export button *)
(* starts a capture, getSelectedLineContent returns at least one line: the *)
(* snippet captured is never empty, also after a lyrics response that      *)
(* leaves the lyrics empty while a selection is held.                      *)
(***************************************************************************)
C31_SnippetNeverEmpty ==
  ModalShown => Len(getSelectedLineContent) >= 1

(***************************************************************************)
(* C32: a file is downloaded only by a step taken while the export modal   *)
(* is still shown: a capture started before the user cancelled the modal   *)
(* and settling after the cancel clicks no download link.                  *)
(***************************************************************************)
C32_NoDownloadAfterCancel ==
  [][download' # NoFile => ModalShown]_vars

(***************************************************************************)
(* C33: at most one renewal timeout is pending at any time, however many   *)
(* getSpotifyToken calls the module start, the requests that find no token *)
(* and the 401 retries have made.                                          *)
(***************************************************************************)
C33_OneRenewalTimer == BagCardinality(timeouts) <= 1

(***************************************************************************)
(* The page and the backend together, for searches: the request handleSearch *)
(* sends starts a GET handler, and the response that handler returns is    *)
(* what fetchApi receives.                                                 *)
(***************************************************************************)
\* What fetchApi and handleSearch make of a response to a search: a 401, a
\* status that is not OK, or results, which the catalog leaves empty or not.
OutcomesOf(r) ==
  IF r.status = 401 THEN {"401"}
  ELSE IF r.status \notin 200..299 THEN {"failed"}
  ELSE {"ok", "empty"}

\* The page's part of a step of the backend: the response returned, if any,
\* arrives.
Received ==
  IF response' # NoResponse
    THEN \E o \in OutcomesOf(response') : SearchResponseBody(1, o)
    ELSE UNCHANGED clientVars

\* fetch(`/api/lyrics?query=...`): the request leaves and GET starts.
SearchSubmitted == HandleSearchBody /\ GetBody(searchQuery, {})

AuthReturned(i, ok) == AuthSettlesBody(i, ok) /\ Received

SearchReturned(i, o) == SearchSettlesBody(i, o) /\ Received

RetryReturned(i, o) == RetrySettlesBody(i, o) /\ Received

RelayInit == \E v \in Variants : Mounted(v, "token")

RelayNext ==
  \/ \E q \in Queries : SetSearchQuery(q)
  \/ SearchSubmitted
  \/ \E d \in Delays : TimeoutFires(d)
  \/ \E ok \in BOOLEAN : GrantSettles(ok)
  \/ \E i \in 1..MaxInFlight, ok \in BOOLEAN : AuthReturned(i, ok)
  \/ \E i \in 1..MaxInFlight, o \in CatalogOutcomes : SearchReturned(i, o)
  \/ \E i \in 1..MaxInFlight, ok \in BOOLEAN : RefreshSettles(i, ok)
  \/ \E i \in 1..MaxInFlight, o \in CatalogOutcomes : RetryReturned(i, o)

RelaySpec == RelayInit /\ [][RelayNext]_vars

(***************************************************************************)
(* C34: when the catalog answers 401 to the backend's retry as well, that  *)
(* is when the backend's own credential is refused for good, the response  *)
(* the page receives leaves the user's access token in place: the page     *)
(* does not go back to the login view.                                     *)
(***************************************************************************)
C34_BackendFailureKeepsLogin ==
  [][(response'.request.pc = "retry" /\ response'.provider = 401) =>
       accessToken' = accessToken]_vars

====
